---- MODULE Spec2Model ----
(***************************************************************************)
(* Model of md-embed-api (src/app/main.py): a stateless HTTP relay that    *)
(* validates (repo, path, ref), fetches the file with one outbound GET,    *)
(* renders it and wraps it in a presentation template.                     *)
(*                                                                         *)
(* Strings.  A Python str or bytes value is modelled as a sequence of      *)
(* lexemes; the value it denotes is the concatenation of its lexemes.      *)
(*   - a word such as "main", "a.md", "script" stands for those ASCII      *)
(*     characters (all of them in [A-Za-z0-9_.-] when the word is in       *)
(*     WordLex);                                                           *)
(*   - "/", "<", ">", "\"", "'", "\\", "\n", "?", "#", ";", " " are the    *)
(*     single ASCII characters;                                            *)
(*   - "U+0000", "U+00E9", "U+FFFD", "U+E0001" are single code points;     *)
(*   - "0xC3", "0xA9", "0xFF", ... are single bytes >= 0x80.               *)
(* The alphabet is chosen so that no pattern the code searches for         *)
(* ("github.com", "/blob/", "<script", a quote, a backslash) straddles     *)
(* two lexemes or lies hidden inside one.                                  *)
(***************************************************************************)
EXTENDS Integers, Sequences, FiniteSets, TLC

\* ------------------------------------------------------------------ bounds
MaxBodyLen == 2   \* longest upstream body enumerated byte by byte
MaxSegs == 2      \* most path segments of an enumerated path

\* --------------------------------------------------------------- constants
CACHE_MAX_AGE == 300

NUL == "U+0000"
NL == "\n"

\* lexemes made only of characters in [A-Za-z0-9_.-]
WordLex ==
  {"o", "r", "x", "main", "feature", "a.md", "docs", "blob", "github.com",
   "www.github.com", "raw.githubusercontent.com", "T", "Hello", "script",
   "evil", "p", "b", "A"}

APP_NAME == <<"md-embed-api">>
RAW_BASE == <<"https:", "/", "/", "raw.githubusercontent.com">>
PUBLIC_BASE_URL == <<"https:", "/", "/", "md-embed.grye.org">>

\* ----------------------------------------------------------- str helpers
\* the concatenation of a sequence of strings
RECURSIVE Concat(_)
Concat(ss) ==
  IF Len(ss) = 0 THEN <<>>
  ELSE IF Len(ss) = 1 THEN ss[1]
  ELSE Concat(SubSeq(ss, 1, Len(ss) \div 2)) \o Concat(SubSeq(ss, Len(ss) \div 2 + 1, Len(ss)))

Front(s) == SubSeq(s, 1, Len(s) - 1)

\* s[k..] starts with pattern pat
StartsAt(s, k, pat) ==
  /\ k + Len(pat) - 1 <= Len(s)
  /\ \A j \in 1..Len(pat) : s[k + j - 1] = pat[j]

\* Python: pat in s
Contains(s, pat) == \E k \in 1..(Len(s) + 1) : StartsAt(s, k, pat)

\* Python: s.replace(old, new), every non-overlapping occurrence, left to right
RECURSIVE Replace(_, _, _)
Replace(s, old, new) ==
  IF s = <<>> THEN <<>>
  ELSE IF StartsAt(s, 1, old)
       THEN new \o Replace(SubSeq(s, Len(old) + 1, Len(s)), old, new)
       ELSE <<Head(s)>> \o Replace(Tail(s), old, new)

\* Python: s.split("/")
RECURSIVE Split(_, _)
Split(s, acc) ==
  IF s = <<>> THEN <<acc>>
  ELSE IF Head(s) = "/" THEN <<acc>> \o Split(Tail(s), <<>>)
       ELSE Split(Tail(s), Append(acc, Head(s)))

\* Python: "/".join(parts)
RECURSIVE Join(_)
Join(parts) ==
  IF parts = <<>> THEN <<>>
  ELSE IF Len(parts) = 1 THEN parts[1]
       ELSE parts[1] \o <<"/">> \o Join(Tail(parts))

\* Python: [x for x in parts if x]
NonEmpty(parts) == SelectSeq(parts, LAMBDA x : x # <<>>)

\* ------------------------------------------------------------- Validator
\* Python's "$" (no MULTILINE) matches at the end of the string and also
\* just before a newline that is the last character.
EndsWithNewline(s) == Len(s) > 0 /\ s[Len(s)] = NL

IsWordRun(s) == Len(s) > 0 /\ \A i \in 1..Len(s) : s[i] \in WordLex

\* [A-Za-z0-9_.-]+/[A-Za-z0-9_.-]+
repo_body(s) ==
  \E k \in 1..Len(s) :
    /\ s[k] = "/"
    /\ IsWordRun(SubSeq(s, 1, k - 1))
    /\ IsWordRun(SubSeq(s, k + 1, Len(s)))

\* [A-Za-z0-9_.\-\/]+
ref_body(s) == Len(s) > 0 /\ \A i \in 1..Len(s) : s[i] \in WordLex \cup {"/"}

\* [^\0]+
path_body(s) == Len(s) > 0 /\ \A i \in 1..Len(s) : s[i] # NUL

repo_re(s) == repo_body(s) \/ (EndsWithNewline(s) /\ repo_body(Front(s)))
ref_re(s) == ref_body(s) \/ (EndsWithNewline(s) /\ ref_body(Front(s)))
path_re(s) == path_body(s) \/ (EndsWithNewline(s) /\ path_body(Front(s)))

\* the condition of "if not repo_re.match(repo) or ...: raise 400", negated
params_ok(repo, path, ref) == repo_re(repo) /\ ref_re(ref) /\ path_re(path)

\* -------------------------------------------------------------- Resolver
blob_url(repo, path, ref) ==
  <<"https:", "/", "/", "github.com", "/">> \o repo
    \o <<"/", "blob", "/">> \o ref \o <<"/">> \o path

src_url(repo, path, ref) == RAW_BASE \o <<"/">> \o repo \o <<"/">> \o ref \o <<"/">> \o path

\* first index of s holding a lexeme of set, Len(s)+1 when there is none
IndexOf(s, set) ==
  IF \E i \in 1..Len(s) : s[i] \in set
  THEN CHOOSE i \in 1..Len(s) : s[i] \in set /\ \A j \in 1..(i - 1) : s[j] \notin set
  ELSE Len(s) + 1

\* last index of s holding a lexeme of set, 0 when there is none
LastIndexOf(s, set) ==
  IF \E i \in 1..Len(s) : s[i] \in set
  THEN CHOOSE i \in 1..Len(s) : s[i] \in set /\ \A j \in (i + 1)..Len(s) : s[j] \notin set
  ELSE 0

Without(s, set) == SelectSeq(s, LAMBDA c : c \notin set)

\* the part of s before its first lexeme of set
Before(s, set) == SubSeq(s, 1, IndexOf(s, set) - 1)

\* urllib.parse.urlparse(u), the netloc and path components: tab, CR and LF
\* are removed from the URL, the scheme and "//netloc" are split off, then the
\* fragment ("#"), the query ("?") and the params (";" in the last segment).
url_unscheme(u) == IF Len(u) > 0 /\ u[1] \in {"https:", "http:"} THEN Tail(u) ELSE u

\* index, in a URL without its scheme, of the first lexeme after "//netloc"
url_netloc_end(u) ==
  IF StartsAt(u, 1, <<"/", "/">>)
  THEN 2 + IndexOf(SubSeq(u, 3, Len(u)), {"/", "?", "#"})
  ELSE 1

url_netloc(u) ==
  IF StartsAt(u, 1, <<"/", "/">>) THEN SubSeq(u, 3, url_netloc_end(u) - 1) ELSE <<>>

\* _splitparams: the path without the ";params" of its last segment
url_splitparams(p) ==
  SubSeq(p, 1, LastIndexOf(p, {"/"})
                 + IndexOf(SubSeq(p, LastIndexOf(p, {"/"}) + 1, Len(p)), {";"}) - 1)

url_path(u) ==
  url_splitparams(Before(Before(SubSeq(u, url_netloc_end(u), Len(u)), {"#"}), {"?"}))

url_split(u) == [netloc |-> url_netloc(u), path |-> url_path(u)]

urlparse(u) == url_split(url_unscheme(Without(u, {NL, "\t", "\r"})))

\* the value that stands for "raise ValueError(err)"
ValueError(err) == [ok |-> FALSE, err |-> err, repo |-> <<>>, path |-> <<>>, ref |-> <<>>]

NoLocator == ValueError(<<>>)

\* lines 240-248 with the ref taken one segment too early
blob_url_parts_early_ref(netloc, parts) ==
  IF netloc \notin {<<"github.com">>, <<"www.github.com">>}
  THEN ValueError(<<"unsupported host">>)
  ELSE IF Len(parts) < 5 \/ parts[3] # <<"blob">> THEN ValueError(<<"invalid blob url">>)
  ELSE [ok |-> TRUE, err |-> <<>>,
        repo |-> parts[1] \o <<"/">> \o parts[2],
        path |-> Join(SubSeq(parts, 5, Len(parts))),
        ref |-> parts[3]]

\* lines 240-248: the host check, the shape check and the returned tuple
blob_url_parts(netloc, parts) ==
  IF netloc \notin {<<"github.com">>, <<"www.github.com">>}
  THEN ValueError(<<"unsupported host">>)
  ELSE IF Len(parts) < 5 \/ parts[3] # <<"blob">> THEN ValueError(<<"invalid blob url">>)
  ELSE [ok |-> TRUE, err |-> <<>>,
        repo |-> parts[1] \o <<"/">> \o parts[2],
        path |-> Join(SubSeq(parts, 5, Len(parts))),
        ref |-> parts[4]]

\* parse_github_blob_url(u); ok = FALSE stands for the ValueError
parse_github_blob_url(u) ==
  blob_url_parts(urlparse(u).netloc, NonEmpty(Split(urlparse(u).path, <<>>)))

\* urllib.parse.quote(s): letters, digits and "_.-~/" are kept, every other
\* character becomes %XX
PctOf ==
  [c \in {NL, " ", "<", ">", "\"", "'", "\\", "?", "#", ";", "(", ")", NUL,
          "U+00E9", "U+FFFD", "U+E0001"} |->
     CASE c = NL -> <<"%0A">>
       [] c = " " -> <<"%20">>
       [] c = "<" -> <<"%3C">>
       [] c = ">" -> <<"%3E">>
       [] c = "\"" -> <<"%22">>
       [] c = "'" -> <<"%27">>
       [] c = "\\" -> <<"%5C">>
       [] c = "?" -> <<"%3F">>
       [] c = "#" -> <<"%23">>
       [] c = ";" -> <<"%3B">>
       [] c = "(" -> <<"%28">>
       [] c = ")" -> <<"%29">>
       [] c = NUL -> <<"%00">>
       [] c = "U+00E9" -> <<"%C3", "%A9">>
       [] c = "U+FFFD" -> <<"%EF", "%BF", "%BD">>
       [] c = "U+E0001" -> <<"%F3", "%A0", "%80", "%81">>]

quote(s) ==
  Concat([i \in 1..Len(s) |-> IF s[i] \in DOMAIN PctOf THEN PctOf[s[i]] ELSE <<s[i]>>])

\* ---------------------------------------------------------------- Fetcher
\* UTF-8 sequences of the non-ASCII code points of the alphabet
Utf8Table ==
  {[cp |-> "U+00E9", bytes |-> <<"0xC3", "0xA9">>],
   [cp |-> "U+FFFD", bytes |-> <<"0xEF", "0xBF", "0xBD">>],
   [cp |-> "U+E0001", bytes |-> <<"0xF3", "0xA0", "0x80", "0x81">>]}

HighBytes == UNION {{e.bytes[i] : i \in 1..Len(e.bytes)} : e \in Utf8Table} \cup {"0xFF"}

LeadBytes == {e.bytes[1] : e \in Utf8Table}

\* number of bytes that the unit starting with the lead byte bs[j] takes: a
\* whole sequence of the table, or else the longest proper prefix of one, the
\* "maximal subpart" that errors="replace" turns into a single U+FFFD
UnitLen(bs, j) ==
  IF \E e \in Utf8Table : StartsAt(bs, j, e.bytes)
  THEN Len((CHOOSE e \in Utf8Table : StartsAt(bs, j, e.bytes)).bytes)
  ELSE LET lens == {n \in 1..3 : \E e \in Utf8Table :
                      n < Len(e.bytes) /\ StartsAt(bs, j, SubSeq(e.bytes, 1, n))}
       IN CHOOSE n \in lens : \A m \in lens : m <= n

\* bs[i] is a continuation byte taken by the unit of an earlier lead byte
Continues(bs, i) ==
  \E k \in 1..3 : i - k >= 1 /\ bs[i - k] \in LeadBytes /\ UnitLen(bs, i - k) > k

\* what the byte at position i decodes to ("" when an earlier unit took it)
decode_unit(bs, i) ==
  IF bs[i] \notin HighBytes THEN bs[i]
  ELSE IF Continues(bs, i) THEN ""
  ELSE IF \E e \in Utf8Table : StartsAt(bs, i, e.bytes)
       THEN (CHOOSE e \in Utf8Table : StartsAt(bs, i, e.bytes)).cp
       ELSE "U+FFFD"

\* httpx Response.text for a UTF-8 body: content.decode("utf-8", errors="replace")
decode(bs) ==
  SelectSeq([i \in 1..Len(bs) |-> decode_unit(bs, i)], LAMBDA c : c # "")

\* str.encode("utf-8")
encode(s) ==
  Concat([i \in 1..Len(s) |->
            IF \E e \in Utf8Table : e.cp = s[i]
            THEN (CHOOSE e \in Utf8Table : e.cp = s[i]).bytes
            ELSE <<s[i]>>])

\* hashlib.sha256(content).hexdigest(): SHA-256 is taken to be collision free,
\* so the digest is modelled by an injective image of the hashed bytes
etag_for(content) == <<"sha256(">> \o content \o <<")">>

cache_headers(headers, etag) ==
  [h \in (DOMAIN headers) \cup {"ETag", "Cache-Control"} |->
     IF h = "ETag" THEN etag
     ELSE IF h = "Cache-Control" THEN <<"public, max-age=", ToString(CACHE_MAX_AGE)>>
     ELSE headers[h]]

\* --------------------------------------------------------------- Renderer
BLEACH_ALLOWED_TAGS ==
  {"a", "abbr", "acronym", "b", "blockquote", "code", "em", "i", "li", "ol",
   "strong", "ul"}

ALLOWED_TAGS ==
  BLEACH_ALLOWED_TAGS \cup
  {"p", "pre", "code", "span", "div", "h1", "h2", "h3", "h4", "h5", "h6",
   "table", "thead", "tbody", "tr", "th", "td", "blockquote", "hr", "br",
   "ul", "ol", "li", "em", "strong", "a", "img", "details", "summary"}

\* tags that Python-Markdown treats as a raw HTML block
BlockLevel == {"script", "style", "div", "p", "pre", "table", "blockquote"}

\* number of lexemes of the tag that starts at the head of s: "<" name ">"
\* or "<" "/" name ">"; 0 when the "<" does not open a tag
TagLen(s) ==
  IF Len(s) >= 3 /\ s[1] = "<" /\ s[2] \in WordLex /\ s[3] = ">" THEN 3
  ELSE IF Len(s) >= 4 /\ s[1] = "<" /\ s[2] = "/" /\ s[3] \in WordLex /\ s[4] = ">" THEN 4
  ELSE 0

TagName(s) == IF TagLen(s) = 3 THEN s[2] ELSE s[3]

\* the inline pass of markdown.markdown: raw HTML tags go through unchanged,
\* a "<" or ">" that belongs to no tag is written as an entity
RECURSIVE md_inline(_)
md_inline(s) ==
  IF s = <<>> THEN <<>>
  ELSE IF TagLen(s) > 0
       THEN SubSeq(s, 1, TagLen(s)) \o md_inline(SubSeq(s, TagLen(s) + 1, Len(s)))
  ELSE IF Head(s) = "<" THEN <<"&lt;">> \o md_inline(Tail(s))
  ELSE IF Head(s) = ">" THEN <<"&gt;">> \o md_inline(Tail(s))
  ELSE <<Head(s)>> \o md_inline(Tail(s))

\* markdown.markdown(md_text, extensions=[...]) on one block of text: a block
\* that opens with a block-level tag is raw HTML, anything else a paragraph
markdown_markdown(md_text) ==
  IF md_text = <<>> THEN <<>>
  ELSE IF TagLen(md_text) = 3 /\ TagName(md_text) \in BlockLevel THEN md_inline(md_text)
  ELSE <<"<", "p", ">">> \o md_inline(md_text) \o <<"<", "/", "p", ">">>

\* bleach.clean(html, tags=tags, strip=strip): an allowed tag is kept; a tag
\* outside the allow-list is dropped when strip is set and written with
\* "&lt;" "&gt;" otherwise; text is kept, with a bare "<" or ">" as an entity
RECURSIVE bleach_clean(_, _, _)
bleach_clean(html, tags, strip) ==
  IF html = <<>> THEN <<>>
  ELSE IF TagLen(html) > 0
       THEN LET n == TagLen(html)
                rest == bleach_clean(SubSeq(html, n + 1, Len(html)), tags, strip)
            IN IF TagName(html) \in tags THEN SubSeq(html, 1, n) \o rest
               ELSE IF strip THEN rest
               ELSE <<"&lt;">> \o SubSeq(html, 2, n - 1) \o <<"&gt;">> \o rest
  ELSE IF Head(html) = "<" THEN <<"&lt;">> \o bleach_clean(Tail(html), tags, strip)
  ELSE IF Head(html) = ">" THEN <<"&gt;">> \o bleach_clean(Tail(html), tags, strip)
  ELSE <<Head(html)>> \o bleach_clean(Tail(html), tags, strip)

render_md(md_text) == bleach_clean(markdown_markdown(md_text), ALLOWED_TAGS, FALSE)

\* -------------------------------------------------------------- Presenter
GITHUB_MARKDOWN_LIGHT ==
  <<"https://cdn.jsdelivr.net/npm/github-markdown-css@5.7.0/github-markdown-light.min.css">>
GITHUB_MARKDOWN_DARK ==
  <<"https://cdn.jsdelivr.net/npm/github-markdown-css@5.7.0/github-markdown-dark.min.css">>
PYGMENTS_LIGHT == <<"https://cdn.jsdelivr.net/npm/pygments-css@0.1.0/default.css">>
PYGMENTS_DARK == <<"https://cdn.jsdelivr.net/npm/pygments-css@0.1.0/native.css">>
GIST_EMBED_CSS == <<"https://github.githubassets.com/assets/gist-embed-0ac919313390.css">>

\* FRAGMENT_TEMPLATE.format(...): every literal stretch of a template line is
\* one lexeme, every line break the lexeme "\n"
FRAGMENT_TEMPLATE(gist_css, gh_light, gh_dark, pyg_light, pyg_dark, content, title, raw_url, file_url, filename) ==
    <<"\n", "<link rel=\"stylesheet\" href=\"">>
    \o
    gist_css
    \o
    <<"\">", "\n", "<link id=\"ghcss\" rel=\"stylesheet\" href=\"">>
    \o
    gh_light
    \o
    <<"\">", "\n", "<link id=\"pygcss\" rel=\"stylesheet\" href=\"">>
    \o
    pyg_light
    \o
    <<"\">", "\n", "<style>", "\n", ":root { color-scheme: light dark; }", "\n",
      "@media (prefers-color-scheme: dark) {", "\n", "  #ghcss { content: url(">>
    \o
    gh_dark
    \o
    <<"); }", "\n", "  #pygcss { content: url(">>
    \o
    pyg_dark
    \o
    <<"); }", "\n", "}", "\n",
      ".gist-file { border:1px solid #d0d7de !important; border-radius:6px !important; background:#fff !important; overflow:hidden !important; }",
      "\n", "@media (prefers-color-scheme: dark) {", "\n",
      "  .gist-file { border:1px solid #30363d !important; background:#0d1117 !important; }", "\n",
      "}", "\n", ".markdown-body { padding:16px; }", "\n", "</style>", "\n", "<div class=\"gist\">",
      "\n",
      "  <div class=\"gist-file\" translate=\"no\" data-color-mode=\"light\" data-light-theme=\"light\">",
      "\n", "    <div class=\"gist-data\">", "\n",
      "      <div class=\"js-gist-file-update-container js-task-list-container\">", "\n",
      "        <div class=\"file my-2\">", "\n",
      "          <div class=\"Box-body readme blob p-5 p-xl-6\" style=\"overflow:auto\" tabindex=\"0\" role=\"region\" aria-label=\"">>
    \o
    title
    \o
    <<"\">", "\n",
      "            <article class=\"markdown-body entry-content container-lg\" itemprop=\"text\">",
      "\n", "              ">>
    \o
    content
    \o
    <<"\n", "            </article>", "\n", "          </div>", "\n", "        </div>", "\n",
      "      </div>", "\n", "    </div>", "\n", "    <div class=\"gist-meta\">", "\n",
      "      <a href=\"">>
    \o
    raw_url
    \o
    <<"\" style=\"float:right\" class=\"Link--inTextBlock\" target=\"_blank\" rel=\"noopener\">view raw</a>",
      "\n", "      <a href=\"">>
    \o
    file_url
    \o
    <<"\" class=\"Link--inTextBlock\" target=\"_blank\">">>
    \o
    filename
    \o
    <<"</a>", "\n",
      "      hosted on <a class=\"Link--inTextBlock\" href=\"https://md-embed.grye.org/docs\" target=\"_blank\" rel=\"noopener\">MD Embed</a> by <a class=\"Link--inTextBlock\" href=\"https://github.com/Awerito\" target=\"_blank\" rel=\"noopener\">@Awerito</a>",
      "\n", "    </div>", "\n", "  </div>", "\n", "</div>", "\n">>

\* the literal lexemes of FRAGMENT_TEMPLATE that hold a double quote
TemplateQuoted ==
  {"            <article class=\"markdown-body entry-content container-lg\" itemprop=\"text\">",
   "          <div class=\"Box-body readme blob p-5 p-xl-6\" style=\"overflow:auto\" tabindex=\"0\" role=\"region\" aria-label=\"",
   "        <div class=\"file my-2\">",
   "      <a href=\"",
   "      <div class=\"js-gist-file-update-container js-task-list-container\">",
   "      hosted on <a class=\"Link--inTextBlock\" href=\"https://md-embed.grye.org/docs\" target=\"_blank\" rel=\"noopener\">MD Embed</a> by <a class=\"Link--inTextBlock\" href=\"https://github.com/Awerito\" target=\"_blank\" rel=\"noopener\">@Awerito</a>",
   "    <div class=\"gist-data\">",
   "    <div class=\"gist-meta\">",
   "  <div class=\"gist-file\" translate=\"no\" data-color-mode=\"light\" data-light-theme=\"light\">",
   "\" class=\"Link--inTextBlock\" target=\"_blank\">",
   "\" style=\"float:right\" class=\"Link--inTextBlock\" target=\"_blank\" rel=\"noopener\">view raw</a>",
   "\">",
   "<div class=\"gist\">",
   "<link id=\"ghcss\" rel=\"stylesheet\" href=\"",
   "<link id=\"pygcss\" rel=\"stylesheet\" href=\"",
   "<link rel=\"stylesheet\" href=\""}

\* os.path.basename(path)
basename(path) == SubSeq(path, LastIndexOf(path, {"/"}) + 1, Len(path))

\* Python repr(s) of a str: single quotes unless s holds a single quote and
\* no double quote; backslash, the chosen quote, \n \t \r and the
\* non-printable characters are escaped (\xNN, \uNNNN, \UNNNNNNNN by size)
HasDoubleQuote(s) == \E i \in 1..Len(s) : s[i] = "\"" \/ s[i] \in TemplateQuoted

repr_quote(s) == IF Contains(s, <<"'">>) /\ ~HasDoubleQuote(s) THEN "\"" ELSE "'"

repr_char(c, q) ==
  CASE c = "\\" -> <<"\\", "\\">>
    [] c = q -> <<"\\", q>>
    [] c = NL -> <<"\\", "n">>
    [] c = "\t" -> <<"\\", "t">>
    [] c = "\r" -> <<"\\", "r">>
    [] c = NUL -> <<"\\", "x", "00">>
    [] c = "U+E0001" -> <<"\\", "U", "000e0001">>
    [] OTHER -> <<c>>

repr_body(s, q) == Concat([i \in 1..Len(s) |-> repr_char(s[i], q)])

repr(s) == <<repr_quote(s)>> \o repr_body(s, repr_quote(s)) \o <<repr_quote(s)>>

\* ECMAScript string literal, s being the text after its opening quote q.
\* \n \t \r \\ \' \" \xNN are escapes; a backslash before any other
\* character (such as U) stands for that character alone; a raw line
\* terminator inside the literal is a syntax error.

\* number of consecutive backslashes right before position i
BackslashRun(s, i) ==
  IF i = 1 \/ s[i - 1] # "\\" THEN 0
  ELSE CHOOSE k \in 1..(i - 1) :
         /\ \A j \in 1..k : s[i - j] = "\\"
         /\ (k = i - 1 \/ s[i - k - 1] # "\\")

\* s[i] is the character after the backslash of an escape sequence
Escaped(s, i) == BackslashRun(s, i) % 2 = 1

\* s[i] holds the two hex digits of a \xNN escape
HexDigits(s, i) == i >= 3 /\ s[i] = "00" /\ s[i - 1] = "x" /\ Escaped(s, i - 1)

\* what position i of the literal contributes to its value ("" for nothing)
js_unit(s, i) ==
  IF ~Escaped(s, i) THEN (IF s[i] = "\\" \/ HexDigits(s, i) THEN "" ELSE s[i])
  ELSE CASE s[i] = "n" -> NL
         [] s[i] = "t" -> "\t"
         [] s[i] = "r" -> "\r"
         [] s[i] = "x" /\ i < Len(s) /\ s[i + 1] = "00" -> NUL
         [] s[i] = NL -> ""
         [] OTHER -> s[i]

js_string(s, q) ==
  LET closing == {i \in 1..Len(s) : s[i] = q /\ ~Escaped(s, i)}
      close == IF closing = {} THEN Len(s) + 1
               ELSE CHOOSE i \in closing : \A j \in closing : i <= j
      lit == SubSeq(s, 1, close - 1)
  IN [ok |-> /\ closing # {}
             /\ \A i \in 1..Len(lit) : lit[i] \in {NL, "\r"} => Escaped(lit, i),
      value |-> SelectSeq([i \in 1..Len(lit) |-> js_unit(lit, i)], LAMBDA c : c # ""),
      rest |-> SubSeq(s, close + 1, Len(s))]

\* the string a browser hands to document.write when it runs js, if js is
\* exactly one statement document.write(<string literal>);
js_eval(js) ==
  IF Len(js) >= 2 /\ js[1] = "document.write(" /\ js[2] \in {"'", "\""}
  THEN LET lit == js_string(SubSeq(js, 3, Len(js)), js[2])
       IN [ok |-> lit.ok /\ lit.rest = <<");">>, value |-> lit.value]
  ELSE [ok |-> FALSE, value |-> <<>>]

\* json.dumps of a str value (Starlette JSONResponse, ensure_ascii=False)
json_char(c) ==
  CASE c = "\"" -> <<"\\", "\"">>
    [] c = "\\" -> <<"\\", "\\">>
    [] c = NL -> <<"\\", "n">>
    [] c = NUL -> <<"\\", "u", "0000">>
    [] OTHER -> <<c>>

json_str(s) == Concat([i \in 1..Len(s) |-> json_char(s[i])])

\* -------------------------------------------------------------- responses
Response(status, media_type, body) ==
  [status |-> status, headers |-> ("Content-Type" :> media_type), body |-> body]

NoResponse == Response(0, <<>>, <<>>)

\* raise HTTPException(status_code, detail), as FastAPI's handler answers it:
\* the status is that of the exception, the body {"detail": ...} unless the
\* status allows no body
HTTPException(status_code, detail) ==
  Response(status_code, <<"application/json">>,
           IF status_code < 200 \/ status_code \in {204, 205, 304} THEN <<>>
           ELSE <<"{\"detail\":\"">> \o json_str(detail) \o <<"\"}">>)

\* an exception no handler catches: Starlette's ServerErrorMiddleware
InternalServerError ==
  Response(500, <<"text/plain; charset=utf-8">>, <<"Internal Server Error">>)

\* the upstream status translated to 502 instead of passed through
upstream_error_502(r) == HTTPException(502, <<"upstream error">>)

\* if r.status_code != 200: raise HTTPException(r.status_code, "upstream error")
upstream_error(r) == HTTPException(r.status_code, <<"upstream error">>)

\* md_raw after the await
md_raw_return(r) ==
  IF r.status_code # 200 THEN upstream_error(r)
  ELSE LET body == r.content
           et == etag_for(body)
           resp0 == Response(200, <<"text/markdown; charset=utf-8">>, body)
       IN [resp0 EXCEPT !.headers = cache_headers(resp0.headers, et)]

\* md_fragment after the await
md_fragment_return(repo, path, ref, title, r) ==
  IF r.status_code # 200 THEN upstream_error(r)
  ELSE LET md_text == decode(r.content)
           html_body == render_md(md_text)
           file_title == IF title # <<>> THEN title ELSE basename(path)
           url_raw == src_url(repo, path, ref)
           url_blob == blob_url(repo, path, ref)
           frag == FRAGMENT_TEMPLATE(GIST_EMBED_CSS, GITHUB_MARKDOWN_LIGHT,
                                     GITHUB_MARKDOWN_DARK, PYGMENTS_LIGHT,
                                     PYGMENTS_DARK, html_body, file_title,
                                     url_raw, url_blob, file_title)
           et == etag_for(encode(md_text))
           resp0 == Response(200, <<"text/html; charset=utf-8">>, frag)
       IN [resp0 EXCEPT !.headers = cache_headers(resp0.headers, et)]

\* md_embed_js after the await inside its call of md_fragment; an
\* HTTPException raised there passes through
md_embed_js_return(repo, path, ref, title, r) ==
  LET frag_resp == md_fragment_return(repo, path, ref, title, r)
  IN IF r.status_code # 200 THEN frag_resp
     ELSE LET frag_html == decode(encode(frag_resp.body))
              js == <<"document.write(">> \o repr(frag_html) \o <<");">>
          IN Response(200, <<"application/javascript">>, js)

\* build_embed_src / md_snippet: the embed.js URL for a locator
embed_src(repo, path, ref, title) ==
  PUBLIC_BASE_URL \o <<"/md/embed.js?", "repo=">> \o quote(repo)
    \o <<"&path=">> \o quote(path) \o <<"&ref=">> \o quote(ref)
    \o (IF title # <<>> THEN <<"&title=">> \o quote(title) ELSE <<>>)

\* md_snippet after the parse: l is the parsed locator or the ValueError
md_snippet_answer(l, title) ==
  IF ~l.ok THEN HTTPException(400, l.err)
  ELSE IF ~params_ok(l.repo, l.path, l.ref)
       THEN HTTPException(400, <<"invalid url structure">>)
  ELSE Response(200, <<"text/plain; charset=utf-8">>,
                <<"<script src=\"">> \o embed_src(l.repo, l.path, l.ref, title)
                  \o <<"\"></script>">>)

\* md_snippet
md_snippet_return(url, title) == md_snippet_answer(parse_github_blob_url(url), title)

\* get_raw_url: the HTTPException is returned, not raised, so FastAPI
\* serialises the object as the JSON body of an ordinary 200 response
get_raw_url_return(github_url) ==
  IF ~Contains(github_url, <<"github.com">>) \/ ~Contains(github_url, <<"/", "blob", "/">>)
  THEN Response(200, <<"application/json">>,
                <<"{\"status_code\":400,\"detail\":\"Invalid GitHub URL. Must be a GitHub file URL containing '/blob/'.\",\"headers\":null}">>)
  ELSE LET raw_url == Replace(Replace(github_url, <<"github.com">>,
                                      <<"raw.githubusercontent.com">>),
                              <<"/", "blob", "/">>, <<"/">>)
       IN Response(200, <<"application/json">>,
                   <<"{\"raw_url\":\"">> \o json_str(raw_url) \o <<"\"}">>)

\* ------------------------------------------------------------ input sets
SeqsUpTo(S, n) == UNION {[1..k -> S] : k \in 0..n}

Repos ==
  {<<"o", "/", "r">>, <<"blob", "/", "r">>, <<"o", "/", "r", "/", "x">>,
   <<"o", "/">>, <<"o", "/", "r", NL>>}

Refs ==
  {<<"main">>, <<"feature", "/", "x">>, <<>>, <<"main", " ", "x">>, <<"main", NL>>}

PathSegs == {<<"a.md">>, <<"blob">>, <<>>}

\* the paths of the browsable URLs given to /md/snippet and /raw-url
Paths ==
  {Join(segs) : segs \in SeqsUpTo(PathSegs, MaxSegs) \ {<<>>}}
    \cup {<<"github.com", "/", "a.md">>, <<"a.md", "?", "x">>, <<"a.md", ";", "x">>}

\* the path parameter of the content endpoints
FetchPaths ==
  {<<"a.md">>, <<"docs", "/", "a.md">>, <<>>, <<"a.md", NUL>>, <<"<", "script", ">">>}

\* the title parameter; <<>> stands for an absent (None) or empty title,
\* which the handlers do not tell apart
Titles == {<<>>, <<"<", "script", ">">>, <<"'", "\"", "\\", NL>>, <<"U+E0001">>}

BodyBytes == {"A", "0xC3", "0xA9", "0xFF"}

Bodies ==
  SeqsUpTo(BodyBytes, MaxBodyLen)
    \cup {<<"<", "script", ">", "evil", "(", ")", "<", "/", "script", ">", "Hello">>,
          <<"<", "b", ">", "Hello", "<", "/", "b", ">">>,
          <<"0xEF", "0xBF", "0xBD">>}

UpstreamStatuses == {204, 301, 404, 500}

UpstreamResponses ==
  {[kind |-> "response", status_code |-> 200, content |-> b] : b \in Bodies}
    \cup {[kind |-> "response", status_code |-> c, content |-> <<"Not", " ", "Found">>] :
            c \in UpstreamStatuses}

NoUpstream == [kind |-> "none", status_code |-> 0, content |-> <<>>]

\* a network-level failure: client.get raises instead of returning
ConnectError == [kind |-> "error", status_code |-> 0, content |-> <<>>]

Urls ==
  {blob_url(repo, path, ref) : repo \in Repos, path \in Paths, ref \in Refs}
    \cup {<<"https:", "/", "/", "gitlab.com", "/", "o", "/", "r", "/", "blob", "/", "main", "/", "a.md">>,
          <<"https:", "/", "/", "github.com", "/", "o", "/", "r", "/", "tree", "/", "main", "/", "a.md">>,
          <<"https:", "/", "/", "www.github.com", "/", "o", "/", "r", "/", "blob", "/", "main", "/", "a.md", "?", "x">>,
          <<"foo">>}

\* ------------------------------------------------------------------ state
VARIABLES
  pc,        \* "idle", "awaiting" (suspended in "await client.get"), "done"
  req,       \* the request being handled
  loc,       \* the handler's locals repo, path, ref
  gets,      \* outbound GETs issued while handling req
  upstream,  \* what client.get returned or raised
  resp       \* the response sent to the client

vars == <<pc, req, loc, gets, upstream, resp>>

Request(endpoint, repo, path, ref, title, url) ==
  [endpoint |-> endpoint, repo |-> repo, path |-> path, ref |-> ref,
   title |-> title, url |-> url]

NoRequest == Request("", <<>>, <<>>, <<>>, <<>>, <<>>)

Locator(repo, path, ref) ==
  [ok |-> TRUE, err |-> <<>>, repo |-> repo, path |-> path, ref |-> ref]

Init ==
  /\ pc = "idle"
  /\ req = NoRequest
  /\ loc = NoLocator
  /\ gets = 0
  /\ upstream = NoUpstream
  /\ resp = NoResponse

\* httpx refuses to build a request for a URL that holds an ASCII control
\* character (httpx.InvalidURL) in its recent versions and sends it in the
\* older ones: both outcomes are possible for such a URL
UrlMayBeRefused(url) == \E i \in 1..Len(url) : url[i] \in {NL, "\t", "\r", NUL}

InvalidURL == [kind |-> "invalid_url", status_code |-> 0, content |-> <<>>]

\* the part of md_raw and md_fragment up to "await client.get(url)": the
\* parameters are validated; a rejected request is answered 400 at once, an
\* accepted one issues the GET and is suspended (or, when the client refuses
\* the URL, ends with the unhandled exception)
Call(endpoint, repo, path, ref, title) ==
  /\ pc = "idle"
  /\ req' = Request(endpoint, repo, path, ref, title, <<>>)
  /\ loc' = Locator(repo, path, ref)
  /\ IF ~params_ok(repo, path, ref)
     THEN /\ resp' = HTTPException(400, <<"invalid parameters">>)
          /\ upstream' = NoUpstream
          /\ gets' = 0
          /\ pc' = "done"
     ELSE \/ /\ resp' = NoResponse
             /\ upstream' = NoUpstream
             /\ gets' = gets + 1
             /\ pc' = "awaiting"
          \/ /\ UrlMayBeRefused(src_url(repo, path, ref))
             /\ resp' = InternalServerError
             /\ upstream' = InvalidURL
             /\ gets' = 0
             /\ pc' = "done"

MdRawCall ==
  \E repo \in Repos, path \in FetchPaths, ref \in Refs :
    Call("/md/raw", repo, path, ref, <<>>)

MdFragmentCall ==
  \E repo \in Repos, path \in FetchPaths, ref \in Refs, title \in Titles :
    Call("/md/fragment", repo, path, ref, title)

\* md_embed_js awaits md_fragment with its own parameters
MdEmbedJsCall ==
  \E repo \in Repos, path \in FetchPaths, ref \in Refs, title \in Titles :
    Call("/md/embed.js", repo, path, ref, title)

Resume(endpoint, r, response) ==
  /\ pc = "awaiting"
  /\ req.endpoint = endpoint
  /\ upstream' = r
  /\ resp' = response
  /\ pc' = "done"
  /\ UNCHANGED <<req, loc, gets>>

MdRawReturn ==
  \E r \in UpstreamResponses : Resume("/md/raw", r, md_raw_return(r))

MdFragmentReturn ==
  \E r \in UpstreamResponses :
    Resume("/md/fragment", r,
           md_fragment_return(req.repo, req.path, req.ref, req.title, r))

MdEmbedJsReturn ==
  \E r \in UpstreamResponses :
    Resume("/md/embed.js", r,
           md_embed_js_return(req.repo, req.path, req.ref, req.title, r))

\* client.get raises (DNS failure, connection refused, timeout); no handler
\* catches the exception
UpstreamUnreachable ==
  /\ pc = "awaiting"
  /\ upstream' = ConnectError
  /\ resp' = InternalServerError
  /\ pc' = "done"
  /\ UNCHANGED <<req, loc, gets>>

MdSnippet ==
  \E url \in Urls, title \in Titles :
    /\ pc = "idle"
    /\ req' = Request("/md/snippet", <<>>, <<>>, <<>>, title, url)
    /\ loc' = parse_github_blob_url(url)
    /\ resp' = md_snippet_return(url, title)
    /\ gets' = 0
    /\ upstream' = NoUpstream
    /\ pc' = "done"

GetRawUrl ==
  \E github_url \in Urls :
    /\ pc = "idle"
    /\ req' = Request("/raw-url", <<>>, <<>>, <<>>, <<>>, github_url)
    /\ loc' = NoLocator
    /\ resp' = get_raw_url_return(github_url)
    /\ gets' = 0
    /\ upstream' = NoUpstream
    /\ pc' = "done"

Health ==
  /\ pc = "idle"
  /\ req' = Request("/health", <<>>, <<>>, <<>>, <<>>, <<>>)
  /\ loc' = NoLocator
  /\ resp' = Response(200, <<"application/json">>,
                      <<"{\"status\":\"ok\",\"name\":\"">> \o APP_NAME
                        \o <<"\",\"version\":\"1.0.0\"}">>)
  /\ gets' = 0
  /\ upstream' = NoUpstream
  /\ pc' = "done"

\* the response has been sent; the server takes the next request
NextRequest ==
  /\ pc = "done"
  /\ pc' = "idle"
  /\ req' = NoRequest
  /\ loc' = NoLocator
  /\ gets' = 0
  /\ upstream' = NoUpstream
  /\ resp' = NoResponse

Next ==
  \/ MdRawCall
  \/ MdFragmentCall
  \/ MdEmbedJsCall
  \/ MdRawReturn
  \/ MdFragmentReturn
  \/ MdEmbedJsReturn
  \/ UpstreamUnreachable
  \/ MdSnippet
  \/ GetRawUrl
  \/ Health
  \/ NextRequest

Spec == Init /\ [][Next]_vars

\* ----------------------------------------------------------------- claims
ContentEndpoints == {"/md/raw", "/md/fragment", "/md/embed.js"}

Handled(endpoints) == pc = "done" /\ req.endpoint \in endpoints

\* the inputs C1 names: repo not matching repo_re, ref empty or holding a
\* character outside [A-Za-z0-9_.-/], path empty or holding a NUL
C1Rejected(repo, path, ref) ==
  \/ ~repo_re(repo)
  \/ ref = <<>> \/ \E i \in 1..Len(ref) : ref[i] \notin WordLex \cup {"/"}
  \/ path = <<>> \/ \E i \in 1..Len(path) : path[i] = NUL

\* C1: a request to a content endpoint with a malformed repo, ref or path
\* ends with a 400 response and issues no outbound GET while it is handled.
C1_RejectedIs400WithoutGet ==
  (pc # "idle" /\ req.endpoint \in ContentEndpoints
     /\ C1Rejected(req.repo, req.path, req.ref))
    => (gets = 0 /\ pc = "done" /\ resp.status = 400)

\* C2: when the upstream GET of an accepted request returns a status other
\* than 200, exactly one GET was made and the client receives that status.
C2_UpstreamStatusPassThrough ==
  (Handled(ContentEndpoints) /\ upstream.kind = "response"
     /\ upstream.status_code # 200)
    => (gets = 1 /\ resp.status = upstream.status_code)

C2_Witness ==
  /\ Handled({"/md/embed.js"})
  /\ upstream.kind = "response"
  /\ upstream.status_code = 301
  /\ resp.status = 301
  /\ gets = 1

\* C3: when the outbound GET fails at the network level, the request ends
\* with a gateway-class (502) response, not with a pass-through status.
C3_UnreachableIs502 ==
  (Handled(ContentEndpoints) /\ upstream.kind = "error")
    => resp.status \in {502, 503, 504}

\* C4: every 200 response of /md/raw, /md/fragment and /md/embed.js carries
\* an ETag header and Cache-Control "public, max-age=<CACHE_MAX_AGE>".
C4_SuccessHasCacheHeaders ==
  (Handled(ContentEndpoints) /\ resp.status = 200)
    => /\ "ETag" \in DOMAIN resp.headers
       /\ "Cache-Control" \in DOMAIN resp.headers
       /\ resp.headers["Cache-Control"] = <<"public, max-age=", "300">>

\* C5: the ETag of a successful /md/raw or /md/fragment response is the hash
\* of the upstream raw bytes (so equal bytes give equal ETags, different
\* bytes different ETags, and both endpoints agree).
C5_ETagIsHashOfUpstreamBytes ==
  (Handled({"/md/raw", "/md/fragment"}) /\ resp.status = 200)
    => /\ "ETag" \in DOMAIN resp.headers
       /\ resp.headers["ETag"] = etag_for(upstream.content)

\* C6: /raw-url answers 400 when github_url lacks "github.com" or "/blob/",
\* and 200 with {raw_url} otherwise.
C6_RawUrlRejectsWith400 ==
  Handled({"/raw-url"})
    => IF ~Contains(req.url, <<"github.com">>) \/ ~Contains(req.url, <<"/", "blob", "/">>)
       THEN resp.status = 400
       ELSE resp.status = 200 /\ StartsAt(resp.body, 1, <<"{\"raw_url\":\"">>)

AcceptedLocators ==
  {l \in [repo : Repos, path : Paths, ref : Refs] : params_ok(l.repo, l.path, l.ref)}

RawUrlBody(url) == <<"{\"raw_url\":\"">> \o json_str(url) \o <<"\"}">>

\* C7 as stated: for every locator the Validator accepts, parsing its blob
\* URL returns the locator, and /raw-url maps its blob URL to its fetch URL.
C7_RoundTripEveryAccepted ==
  Handled({"/md/snippet", "/raw-url"})
    => \A l \in AcceptedLocators :
         req.url = blob_url(l.repo, l.path, l.ref)
           => IF req.endpoint = "/md/snippet"
              THEN loc = Locator(l.repo, l.path, l.ref)
              ELSE resp.body = RawUrlBody(src_url(l.repo, l.path, l.ref))

\* owner/name, ref and path segments that are plain runs of [A-Za-z0-9_.-]
PlainRepo(repo) == repo_body(repo)

PlainRef(ref) == IsWordRun(ref)

PlainPath(path) ==
  LET segs == Split(path, <<>>) IN \A i \in 1..Len(segs) : IsWordRun(segs[i])

PlainLocators ==
  {l \in [repo : Repos, path : Paths, ref : Refs] :
     PlainRepo(l.repo) /\ PlainRef(l.ref) /\ PlainPath(l.path)}

\* no run of the locator is "blob" or holds "github.com"
NoMarker(l) ==
  LET all == l.repo \o l.ref \o l.path
  IN \A i \in 1..Len(all) : all[i] \notin {"blob", "github.com", "www.github.com"}

\* C7 (amended): for every locator whose owner, name and ref are non-empty
\* runs of [A-Za-z0-9_.-] and whose path is such runs joined by single
\* slashes, parsing its blob URL returns the locator; when moreover no run
\* is "blob" or contains "github.com", /raw-url maps the blob URL to src_url.
C7_RoundTripPlain ==
  Handled({"/md/snippet", "/raw-url"})
    => \A l \in PlainLocators :
         req.url = blob_url(l.repo, l.path, l.ref)
           => IF req.endpoint = "/md/snippet"
              THEN loc = Locator(l.repo, l.path, l.ref)
              ELSE NoMarker(l) => resp.body = RawUrlBody(src_url(l.repo, l.path, l.ref))

C7_Witness ==
  /\ Handled({"/md/snippet"})
  /\ req.url = blob_url(<<"blob", "/", "r">>, <<"a.md", "/", "blob">>, <<"main">>)
  /\ loc = Locator(<<"blob", "/", "r">>, <<"a.md", "/", "blob">>, <<"main">>)
  /\ resp.status = 200

\* C8: the fragment returned by /md/fragment holds no "<script", and the
\* plain text of the upstream Markdown ("Hello") is still in it.
C8_FragmentHasNoScriptTag ==
  (Handled({"/md/fragment"}) /\ resp.status = 200)
    => /\ ~Contains(resp.body, <<"<", "script">>)
       /\ Contains(upstream.content, <<"Hello">>) => Contains(resp.body, <<"Hello">>)

\* C9: the /md/embed.js body is one statement document.write(<literal>);
\* whose literal, read by JavaScript's rules, is the fragment that
\* /md/fragment returns for the same request and upstream body.
C9_EmbedJsRoundTrips ==
  (Handled({"/md/embed.js"}) /\ resp.status = 200)
    => /\ js_eval(resp.body).ok
       /\ js_eval(resp.body).value =
            md_fragment_return(req.repo, req.path, req.ref, req.title, upstream).body

\* C10: a tag outside the allow-list is removed from the Renderer's output,
\* not kept as visible escaped text such as "&lt;script&gt;".
C10_DisallowedTagsStripped ==
  (Handled({"/md/fragment"}) /\ resp.status = 200)
    => \A t \in WordLex \ ALLOWED_TAGS :
         /\ ~Contains(resp.body, <<"&lt;", t, "&gt;">>)
         /\ ~Contains(resp.body, <<"&lt;", "/", t, "&gt;">>)

====
